---- MODULE Spec2Model ----
(***************************************************************************)
(* Model of the bias-correction pipeline of process/python: feature        *)
(* combination, min-max scaling, train/test split, training, evaluation    *)
(* (train.py, data.py, method.py, eval.py) and the inference flow          *)
(* (predict.py).                                                           *)
(*                                                                         *)
(* Numbers are exact rationals <<n, d>> in lowest terms (d > 0): numpy's   *)
(* float64 arithmetic is modelled up to rounding.  A matrix is             *)
(* [nrow, ncol, v] with v the tuple of its rows.  An optional value (a     *)
(* Python None, an unbound name, no return value) is the empty tuple, a    *)
(* present value x is <<x>>.                                               *)
(***************************************************************************)
EXTENDS Integers, Sequences, FiniteSets, TLC

\* ------------------------------------------------------------- bounds
\* largest raw feature value of a training, combine or inference input
MaxVal == 1
\* largest raw value of a matrix handed to fit in the scaler sessions
MaxFitVal == 2
\* most rows of a matrix handed to fit in the scaler sessions
MaxFitRows == 2
\* most rows (length of fcst) of a training run
MaxN == 3
\* longest sequence handed to combine in the combine sessions
MaxLen == 2

None == << >>
Some(x) == <<x>>

\* ------------------------------------------------------- exact numbers
Abs(x) == IF x < 0 THEN -x ELSE x

RECURSIVE GCD(_, _)
GCD(a, b) == IF b = 0 THEN a ELSE GCD(b, a % b)

\* n/d with d # 0, in lowest terms with a positive denominator
Norm(n, d) ==
    LET s == IF d < 0 THEN -1 ELSE 1
        g == GCD(Abs(n), Abs(d))
    IN  <<(s * n) \div g, (s * d) \div g>>

Rat(i) == <<i, 1>>
RatAdd(a, b) == Norm(a[1] * b[2] + b[1] * a[2], a[2] * b[2])
RatSub(a, b) == Norm(a[1] * b[2] - b[1] * a[2], a[2] * b[2])
RatMul(a, b) == Norm(a[1] * b[1], a[2] * b[2])
\* numpy's / does not raise for a zero divisor: the quotient is inf, -inf or
\* nan, kept here as a sign over the denominator 0
Sign(x) == IF x < 0 THEN -1 ELSE IF x > 0 THEN 1 ELSE 0
RatDiv(a, b) == IF b[1] = 0 THEN <<Sign(a[1]), 0>> ELSE Norm(a[1] * b[2], a[2] * b[1])
RatLe(a, b) == a[1] * b[2] <= b[1] * a[2]
RatLt(a, b) == a[1] * b[2] < b[1] * a[2]

\* ------------------------------------------------------------ matrices
Matrix(n, m, rows) == [nrow |-> n, ncol |-> m, v |-> rows]

\* a transpose that takes the columns in reverse order (the forecast first)
TransposeReversed(cols, n) ==
    Matrix(n, Len(cols),
           [i \in 1..n |-> [j \in 1..Len(cols) |-> cols[Len(cols) + 1 - j][i]]])

\* numpy_array(x_values).T for a list of equally long columns
TransposeOf(cols, n) ==
    Matrix(n, Len(cols), [i \in 1..n |-> [j \in 1..Len(cols) |-> cols[j][i]]])

RatSeq(s) == [i \in 1..Len(s) |-> Rat(s[i])]

\* the rows of x at the indices idx, in that order
TakeRows(x, idx) == Matrix(Len(idx), x.ncol, [i \in 1..Len(idx) |-> x.v[idx[i]]])

IndexOf(s, e) == CHOOSE i \in 1..Len(s) : s[i] = e /\ \A k \in 1..(i - 1) : s[k] # e

\* numpy_min / numpy_max over axis 0 (x has at least one row)
RECURSIVE FoldMin(_, _, _)
FoldMin(x, j, i) ==
    IF i = 1 THEN x.v[1][j]
    ELSE LET m == FoldMin(x, j, i - 1)
         IN  IF RatLt(x.v[i][j], m) THEN x.v[i][j] ELSE m

RECURSIVE FoldMax(_, _, _)
FoldMax(x, j, i) ==
    IF i = 1 THEN x.v[1][j]
    ELSE LET m == FoldMax(x, j, i - 1)
         IN  IF RatLt(m, x.v[i][j]) THEN x.v[i][j] ELSE m

numpy_min(x) == [j \in 1..x.ncol |-> FoldMin(x, j, x.nrow)]
numpy_max(x) == [j \in 1..x.ncol |-> FoldMax(x, j, x.nrow)]

\* a range without the guard for max = min
UnguardedRange(min_vals, max_vals) ==
    [j \in 1..Len(min_vals) |-> RatSub(max_vals[j], min_vals[j])]

\* range_vals = max - min; range_vals[range_vals == 0] = 1
GuardedRange(min_vals, max_vals) ==
    [j \in 1..Len(min_vals) |->
        LET r == RatSub(max_vals[j], min_vals[j])
        IN  IF r = Rat(0) THEN Rat(1) ELSE r]

\* a scaling that clips its result into [0, 1]
ScaleByClipped(x, min_vals, range_vals) ==
    Matrix(x.nrow, x.ncol,
        [i \in 1..x.nrow |->
            [j \in 1..x.ncol |->
                LET q == RatDiv(RatSub(x.v[i][j], min_vals[j]), range_vals[j])
                IN  IF RatLt(q, Rat(0)) THEN Rat(0)
                    ELSE IF RatLt(Rat(1), q) THEN Rat(1) ELSE q]])

\* (x_values - min) / range_vals, row by row
ScaleBy(x, min_vals, range_vals) ==
    Matrix(x.nrow, x.ncol,
        [i \in 1..x.nrow |->
            [j \in 1..x.ncol |-> RatDiv(RatSub(x.v[i][j], min_vals[j]), range_vals[j])]])

\* an inverse that forgets to add the minimum back
UnscaleByNoMin(x, min_vals, range_vals) ==
    Matrix(x.nrow, x.ncol,
        [i \in 1..x.nrow |-> [j \in 1..x.ncol |-> RatMul(x.v[i][j], range_vals[j])]])

\* scaled_values * range_vals + min_vals, row by row
UnscaleBy(x, min_vals, range_vals) ==
    Matrix(x.nrow, x.ncol,
        [i \in 1..x.nrow |->
            [j \in 1..x.ncol |-> RatAdd(RatMul(x.v[i][j], range_vals[j]), min_vals[j])]])

ScalerState(min_vals, max_vals, names) ==
    [min |-> min_vals, max |-> max_vals, names |-> names]

\* ------------------------------------------------------- data.py: scaler
\* init_scaler: numpy_min raises ValueError on a matrix without rows
init_scaler(x_values, covariants_names) ==
    IF x_values.nrow = 0
    THEN [raised |-> "ValueError", scaler |-> None, value |-> None]
    ELSE LET min_vals == numpy_min(x_values)
             max_vals == numpy_max(x_values)
             range_vals == GuardedRange(min_vals, max_vals)
         IN  [raised |-> "none",
              scaler |-> Some(ScalerState(min_vals, max_vals, covariants_names)),
              value |-> Some(ScaleBy(x_values, min_vals, range_vals))]

\* a refitting apply: the scaler is overwritten with the min/max of x_values
apply_saved_scaler_refit(x_values, scaler, names) ==
    IF names # None /\ scaler.names # names[1]
    THEN [raised |-> "SchemaMismatch", value |-> None, scaler |-> scaler]
    ELSE LET f == init_scaler(x_values, scaler.names)
         IN  [raised |-> "none", value |-> f.value, scaler |-> f.scaler[1]]

\* an apply that never compares the names
apply_saved_scaler_nocheck(x_values, scaler, names) ==
    [raised |-> "none",
     value |-> Some(ScaleBy(x_values, scaler.min, GuardedRange(scaler.min, scaler.max))),
     scaler |-> scaler]

\* an apply that computes the range in place in the scaler's max array
apply_saved_scaler_inplace(x_values, scaler, names) ==
    IF names # None /\ scaler.names # names[1]
    THEN [raised |-> "SchemaMismatch", value |-> None, scaler |-> scaler]
    ELSE LET range_vals == GuardedRange(scaler.min, scaler.max)
         IN  [raised |-> "none",
              value |-> Some(ScaleBy(x_values, scaler.min, range_vals)),
              scaler |-> [scaler EXCEPT !.max = range_vals]]

\* apply_saved_scaler(x_values, scaler, names=None): `scaler` in the result is
\* the caller's scaler dict as the call leaves it (range_vals is a fresh array,
\* so the guard's assignment does not write into it).  The error raised by the
\* names check is the spec's SchemaMismatch.
apply_saved_scaler(x_values, scaler, names) ==
    IF names # None /\ scaler.names # names[1]
    THEN [raised |-> "SchemaMismatch", value |-> None, scaler |-> scaler]
    ELSE LET range_vals == GuardedRange(scaler.min, scaler.max)
         IN  [raised |-> "none",
              value |-> Some(ScaleBy(x_values, scaler.min, range_vals)),
              scaler |-> scaler]

\* an invert that takes a selected column at a fixed position, the last one
reverse_scaler_lastcol(scaled_values, scaler, selected_name) ==
    LET range_vals == GuardedRange(scaler.min, scaler.max)
        unscaled_values == UnscaleBy(scaled_values, scaler.min, range_vals)
    IN  IF selected_name = None
        THEN [raised |-> "none", value |-> Some(unscaled_values), scaler |-> scaler]
        ELSE IF \A k \in 1..Len(scaler.names) : scaler.names[k] # selected_name[1]
        THEN [raised |-> "ValueError", value |-> None, scaler |-> scaler]
        ELSE [raised |-> "none",
              value |-> Some([i \in 1..unscaled_values.nrow |->
                                 unscaled_values.v[i][unscaled_values.ncol]]),
              scaler |-> scaler]

\* reverse_scaler(scaled_values, scaler, selected_name=None); list.index raises
\* ValueError for a name that is not in scaler["names"]
reverse_scaler(scaled_values, scaler, selected_name) ==
    LET range_vals == GuardedRange(scaler.min, scaler.max)
        unscaled_values == UnscaleBy(scaled_values, scaler.min, range_vals)
    IN  IF selected_name = None
        THEN [raised |-> "none", value |-> Some(unscaled_values), scaler |-> scaler]
        ELSE IF \A k \in 1..Len(scaler.names) : scaler.names[k] # selected_name[1]
        THEN [raised |-> "ValueError", value |-> None, scaler |-> scaler]
        ELSE LET c == IndexOf(scaler.names, selected_name[1])
             IN  [raised |-> "none",
                  value |-> Some([i \in 1..unscaled_values.nrow |-> unscaled_values.v[i][c]]),
                  scaler |-> scaler]

\* ---------------------------------------------- data.py: combine
\* a loop that skips a covariate of another length instead of raising
RECURSIVE CombineLoopSkipping(_, _, _, _)
CombineLoopSkipping(covariants, fcst_length, k, x_values) ==
    IF k > Len(covariants)
    THEN [raised |-> "none", x_values |-> x_values]
    ELSE IF Len(covariants[k].value) # fcst_length
    THEN CombineLoopSkipping(covariants, fcst_length, k + 1, x_values)
    ELSE CombineLoopSkipping(covariants, fcst_length, k + 1,
                             Append(x_values, RatSeq(covariants[k].value)))

\* the for loop of combine_covariants_and_fcst from its k-th covariate on;
\* covariants is the dict as the sequence of its items in iteration order
RECURSIVE CombineLoop(_, _, _, _)
CombineLoop(covariants, fcst_length, k, x_values) ==
    IF k > Len(covariants)
    THEN [raised |-> "none", x_values |-> x_values]
    ELSE IF Len(covariants[k].value) # fcst_length
    THEN [raised |-> "DimensionMismatch", x_values |-> x_values]
    ELSE CombineLoop(covariants, fcst_length, k + 1,
                     Append(x_values, RatSeq(covariants[k].value)))

\* combine_covariants_and_fcst(covariants, fcst); the Exception of the length
\* check is the spec's DimensionMismatch
combine_covariants_and_fcst(covariants, fcst) ==
    LET fcst_length == Len(fcst)
        cov_names == [k \in 1..Len(covariants) |-> covariants[k].name]
        loop == CombineLoop(covariants, fcst_length, 1, << >>)
    IN  IF loop.raised # "none"
        THEN [raised |-> loop.raised, ret |-> None]
        ELSE [raised |-> "none",
              ret |-> Some([names |-> Append(cov_names, "fcst"),
                            value |-> TransposeOf(Append(loop.x_values, RatSeq(fcst)),
                                                  fcst_length)])]

\* ------------------------------------------------ data.py: the split
AsFloat(n, d) == [int |-> FALSE, num |-> n, den |-> d]
AsInt(n) == [int |-> TRUE, num |-> n, den |-> 1]

\* sklearn's check of test_size against the number of samples
ValidTestSize(test_size, n_samples) ==
    IF test_size.int
    THEN 0 < test_size.num /\ test_size.num < n_samples
    ELSE 0 < test_size.num /\ test_size.num < test_size.den

\* ceil(test_size * n_samples) for a float, test_size itself for an int
NTest(test_size, n_samples) ==
    IF test_size.int
    THEN test_size.num
    ELSE (test_size.num * n_samples + test_size.den - 1) \div test_size.den

Shuffles(n) ==
    {p \in [1..n -> 1..n] : \A i, j \in 1..n : p[i] = p[j] => i = j}

\* the permutation a seeded shuffle draws (opaque): fixed by the seed and n
SeededShuffle(seed, n) == [i \in 1..n |-> ((i - 1 + seed) % n) + 1]

\* the permutations the shuffle of train_test_split can draw: the seeded one
\* for an int random_state, any for random_state=None
ShufflesFor(random_state, n) ==
    IF random_state = None THEN Shuffles(n) ELSE {SeededShuffle(random_state[1], n)}

\* a split that indexes x by the shuffle but slices y in its given order
train_test_split_unpaired(x, y, test_size, perm) ==
    LET n_samples == x.nrow
        n_test == NTest(test_size, n_samples)
        n_train == n_samples - n_test
        bad == [raised |-> "ValueError", ret |-> None]
    IN  IF Len(y) # n_samples THEN bad
        ELSE IF ~ValidTestSize(test_size, n_samples) THEN bad
        ELSE IF n_train = 0 THEN bad
        ELSE LET ind_test == [i \in 1..n_test |-> perm[i]]
                 ind_train == [i \in 1..n_train |-> perm[n_test + i]]
             IN  [raised |-> "none",
                  ret |-> Some([x_train |-> TakeRows(x, ind_train),
                                x_test |-> TakeRows(x, ind_test),
                                y_train |-> [i \in 1..n_train |-> y[i]],
                                y_test |-> [i \in 1..n_test |-> y[n_train + i]],
                                ind_train |-> ind_train,
                                ind_test |-> ind_test])]

\* train_test_split(x, y, test_size=test_size, random_state=random_state) with
\* perm the permutation its shuffle draws: the first n_test indices of perm are
\* the test rows, the rest the train rows, and x and y are indexed alike
train_test_split(x, y, test_size, perm) ==
    LET n_samples == x.nrow
        n_test == NTest(test_size, n_samples)
        n_train == n_samples - n_test
        bad == [raised |-> "ValueError", ret |-> None]
    IN  IF Len(y) # n_samples THEN bad
        ELSE IF ~ValidTestSize(test_size, n_samples) THEN bad
        ELSE IF n_train = 0 THEN bad
        ELSE LET ind_test == [i \in 1..n_test |-> perm[i]]
                 ind_train == [i \in 1..n_train |-> perm[n_test + i]]
             IN  [raised |-> "none",
                  ret |-> Some([x_train |-> TakeRows(x, ind_train),
                                x_test |-> TakeRows(x, ind_test),
                                y_train |-> [i \in 1..n_train |-> y[ind_train[i]]],
                                y_test |-> [i \in 1..n_test |-> y[ind_test[i]]],
                                ind_train |-> ind_train,
                                ind_test |-> ind_test])]

\* ------------------------------------ method.py, eval.py: the backends
\* The regressors are opaque: a fitted model is the record of what it was
\* fitted on, a prediction the record of the model and the rows it predicted.
Fitted(kind, x_train, y_train) == [kind |-> kind, x |-> x_train, y |-> y_train]
Predict(model, x) == [by |-> model, on |-> x]

run_xgboost(x_train, y_train, x_test) ==
    LET xgb_model == Fitted("XGBRegressor", x_train, y_train)
    IN  [model |-> xgb_model, y_pred |-> Predict(xgb_model, x_test)]

run_linear_regression(x_train, y_train, x_test) ==
    LET lm_model == Fitted("LinearRegression", x_train, y_train)
    IN  [model |-> lm_model, y_pred |-> Predict(lm_model, x_test)]

run_eval(y_pred, y_test) == [of |-> y_pred, against |-> y_test]

run_feature_importance(x, y, x_names) ==
    [feature |-> x_names, by |-> Fitted("RandomForestRegressor", x, y)]

\* ------------------------------------------------- the program's state
VARIABLES
    \* a training run (train_bc_model and its caller)
    inp, pc, x_info, parts, training_data, results, metrics, plot,
    feature_importance, output, exported, raised, visited,
    \* a scaler session (init_scaler, apply_saved_scaler, reverse_scaler)
    s_pc, s_M, s_scaler, s_fitted, s_op, s_via, s_x, s_names, s_sel, s_ret, s_raised,
    s_orig,
    \* a call of combine_covariants_and_fcst
    c_inp, c_pc, c_out,
    \* an inference call (predict_bc_model)
    p_inp, p_pc, p_x_info, p_data, p_ret, p_raised, p_scaler, p_model, p_calls

train_vars == <<inp, pc, x_info, parts, training_data, results, metrics, plot,
                feature_importance, output, exported, raised, visited>>
scaler_vars == <<s_pc, s_M, s_scaler, s_fitted, s_op, s_via, s_x, s_names, s_sel,
                 s_ret, s_raised, s_orig>>
combine_vars == <<c_inp, c_pc, c_out>>
predict_vars == <<p_inp, p_pc, p_x_info, p_data, p_ret, p_raised, p_scaler, p_model,
                  p_calls>>
vars == <<train_vars, scaler_vars, combine_vars, predict_vars>>

\* a part of the state that a specification does not run
IdleTrain ==
    /\ inp = None /\ pc = "Idle" /\ x_info = None /\ parts = None
    /\ training_data = None /\ results = None /\ metrics = None /\ plot = None
    /\ feature_importance = None /\ output = None /\ exported = None
    /\ raised = "none" /\ visited = << >>
IdleScaler ==
    /\ s_pc = "idle" /\ s_M = None /\ s_scaler = None /\ s_fitted = None
    /\ s_op = "none" /\ s_via = "none" /\ s_x = None /\ s_names = None
    /\ s_sel = None /\ s_ret = None /\ s_raised = "none" /\ s_orig = None
IdleCombine == c_inp = None /\ c_pc = "idle" /\ c_out = None
IdlePredict ==
    /\ p_inp = None /\ p_pc = "Idle" /\ p_x_info = None /\ p_data = None
    /\ p_ret = None /\ p_raised = "none" /\ p_scaler = None /\ p_model = None
    /\ p_calls = << >>

\* ------------------------------------------------------------- inputs
Vals == 0..MaxVal
SeqsOfLen(S, n) == [1..n -> S]
SeqsUpTo(S, n) == UNION {SeqsOfLen(S, k) : k \in 0..n}

Item(name, value) == [name |-> name, value |-> value]

\* ------------------------------------------------------ a training run
Methods == {"xgboost", "linear_regression", "random_forest_unsupported"}
TestSizes == {AsFloat(1, 5), AsFloat(1, 2), AsFloat(0, 1), AsFloat(1, 1), AsInt(1)}

\* covariates of a training run: none, or one named var1 that cycles through
\* the values, of the forecast's length or one longer
Ramp(n) == [i \in 1..n |-> (i - 1) % (MaxVal + 1)]
CovariantsFor(n) ==
    {<< >>, <<Item("var1", Ramp(n))>>, <<Item("var1", Ramp(n + 1))>>}

\* observations: one target per row, told apart by their value, or one too many
ObsFor(n) == {[i \in 1..n |-> i], [i \in 1..(n + 1) |-> i]}

TrainInputs ==
    UNION {[obs : ObsFor(n), fcst : SeqsOfLen(Vals, n), covariants : CovariantsFor(n),
            test_size : TestSizes, method : Methods] : n \in 0..MaxN}

InitTrain ==
    /\ inp \in {Some(i) : i \in TrainInputs}
    /\ pc = "Init" /\ x_info = None /\ parts = None
    /\ training_data = None /\ results = None /\ metrics = None /\ plot = None
    /\ feature_importance = None /\ output = None /\ exported = None
    /\ raised = "none" /\ visited = <<"Init">>

\* a stage ends the run with the error it raised
Fail(error) ==
    /\ UNCHANGED <<scaler_vars, combine_vars, predict_vars>>
    /\ pc' = "Failed"
    /\ raised' = error
    /\ visited' = visited

Reach(stage) ==
    /\ UNCHANGED <<scaler_vars, combine_vars, predict_vars>>
    /\ pc' = stage
    /\ raised' = "none"
    /\ visited' = Append(visited, stage)

\* prep_data_for_training, line 214: the features are combined
Combine ==
    /\ pc = "Init"
    /\ LET r == combine_covariants_and_fcst(inp[1].covariants, inp[1].fcst)
       IN  IF r.raised # "none"
           THEN Fail(r.raised) /\ x_info' = x_info
           ELSE Reach("Prepared") /\ x_info' = r.ret
    /\ UNCHANGED <<inp, parts, training_data, results, metrics, plot,
                   feature_importance, output, exported>>

\* train_bc_model, line 65: the call of prep_data_for_training gives no
\* random_state, so the callee's default (None) is what the split gets;
\* train_bc_model has no parameter to set it from
TrainRandomState == None

\* prep_data_for_training, lines 215-219: train_bc_model passes no random_state,
\* so the shuffle is any permutation of the rows
SplitRows ==
    /\ pc = "Prepared"
    /\ \E perm \in ShufflesFor(TrainRandomState, x_info[1].value.nrow) :
          LET r == train_test_split(x_info[1].value, inp[1].obs, inp[1].test_size, perm)
          IN  IF r.raised # "none"
              THEN Fail(r.raised) /\ parts' = parts
              ELSE Reach("Split") /\ parts' = r.ret
    /\ UNCHANGED <<inp, x_info, training_data, results, metrics, plot,
                   feature_importance, output, exported>>

\* the rows a training run fits its scaler on
FitRowsLeaking(split) ==
    Matrix(split.x_train.nrow + split.x_test.nrow, split.x_train.ncol,
           split.x_train.v \o split.x_test.v)

FitRows(split) == split.x_train

\* a preparation that returns the train rows as they were split, unscaled
FitTrainApplyTestRaw(split, names) ==
    LET scaled_x_train_results == init_scaler(FitRows(split), names)
        scaler == scaled_x_train_results.scaler[1]
        applied == apply_saved_scaler(split.x_test, scaler, Some(names))
    IN  [raised |-> "none",
         ret |-> Some([x_train |-> split.x_train,
                       x_test |-> applied.value[1],
                       y_train |-> split.y_train,
                       y_test |-> split.y_test,
                       scaler |-> applied.scaler,
                       x_names |-> names])]

\* prep_data_for_training, lines 221-233: fit on the train rows, apply the
\* fitted scaler to the test rows, return the training data
FitTrainApplyTest(split, names) ==
    LET scaled_x_train_results == init_scaler(FitRows(split), names)
        scaler == scaled_x_train_results.scaler[1]
        applied == apply_saved_scaler(split.x_test, scaler, Some(names))
    IN  IF applied.raised # "none"
        THEN [raised |-> applied.raised, ret |-> None]
        ELSE [raised |-> "none",
              ret |-> Some([x_train |-> ScaleBy(split.x_train, scaler.min,
                                                GuardedRange(scaler.min, scaler.max)),
                            x_test |-> applied.value[1],
                            y_train |-> split.y_train,
                            y_test |-> split.y_test,
                            scaler |-> applied.scaler,
                            x_names |-> names])]

Scale ==
    /\ pc = "Split"
    /\ LET r == FitTrainApplyTest(parts[1], x_info[1].names)
       IN  IF r.raised # "none"
           THEN Fail(r.raised) /\ training_data' = training_data
           ELSE Reach("Scaled") /\ training_data' = r.ret
    /\ UNCHANGED <<inp, x_info, parts, results, metrics, plot,
                   feature_importance, output, exported>>

\* train_bc_model, lines 67-74: two independent ifs, no else; `results` stays
\* unbound for any other method
Dispatch(method, data) ==
    LET r1 == IF method = "xgboost"
              THEN Some(run_xgboost(data.x_train, data.y_train, data.x_test))
              ELSE None
    IN  IF method = "linear_regression"
        THEN Some(run_linear_regression(data.x_train, data.y_train, data.x_test))
        ELSE r1

\* train_bc_model, lines 67-76: the dispatch, and line 76's read of `results`,
\* which raises UnboundLocalError when no branch bound it
Train ==
    /\ pc = "Scaled"
    /\ LET r == Dispatch(inp[1].method, training_data[1])
       IN  IF r = None
           THEN Fail("UnboundLocalError") /\ results' = results
           ELSE Reach("Trained") /\ results' = r
    /\ UNCHANGED <<inp, x_info, parts, training_data, metrics, plot,
                   feature_importance, output, exported>>

\* run_plot's series for the second plot_data call (eval.py lines 37-50)
run_plot(data, res) ==
    [after_bc |-> res.y_pred,
     before_bc_scaled |->
        [i \in 1..data.x_test.nrow |-> data.x_test.v[i][IndexOf(data.x_names, "fcst")]],
     before_bc_raw |-> reverse_scaler(data.x_test, data.scaler, Some("fcst")).value[1],
     obs |-> data.y_test]

\* train_bc_model, lines 76-92: metrics, plots, feature importance, and the
\* returned bundle
Evaluate ==
    /\ pc = "Trained"
    /\ metrics' = Some(run_eval(results[1].y_pred, training_data[1].y_test))
    /\ plot' = Some(run_plot(training_data[1], results[1]))
    /\ feature_importance' =
          Some(run_feature_importance(training_data[1].x_train, training_data[1].y_train,
                                      training_data[1].x_names))
    /\ output' = Some([model |-> results[1].model,
                       metrics |-> metrics'[1],
                       scaler |-> training_data[1].scaler,
                       feature_importance |-> feature_importance'[1]])
    /\ Reach("Evaluated")
    /\ UNCHANGED <<inp, x_info, parts, training_data, results, exported>>

\* examples/start.py, line 21: export(output, output_dir="test") pickles the
\* returned bundle
Export ==
    /\ pc = "Evaluated"
    /\ exported' = output
    /\ Reach("Exported")
    /\ UNCHANGED <<inp, x_info, parts, training_data, results, metrics, plot,
                   feature_importance, output>>

Init == InitTrain /\ IdleScaler /\ IdleCombine /\ IdlePredict
Next ==
    \/ Combine
    \/ SplitRows
    \/ Scale
    \/ Train
    \/ Evaluate
    \/ Export
Spec == Init /\ [][Next]_vars

\* ------------------------------------ simple_bc/bc.py: a run of run_bc
\* run_bc(data, test_size=..., method=...) reads data["obs"] and data["fcst"]
RunBcInputs == {i \in TrainInputs : i.covariants = << >>}

InitRunBc ==
    /\ inp \in {Some(i) : i \in RunBcInputs}
    /\ pc = "Init" /\ x_info = None /\ parts = None
    /\ training_data = None /\ results = None /\ metrics = None /\ plot = None
    /\ feature_importance = None /\ output = None /\ exported = None
    /\ raised = "none" /\ visited = <<"Init">>

\* prep_data(fcst, obs, test_size, random_state), which process/python/bc.py
\* imports from data.py: the forecast alone is the feature matrix, the rows
\* are split, and the scaler is fitted on the train rows and applied to the
\* test rows
prep_data(fcst, obs, test_size, perm) ==
    LET c == combine_covariants_and_fcst(<< >>, fcst)
        split == train_test_split(c.ret[1].value, obs, test_size, perm)
    IN  IF split.raised # "none"
        THEN [raised |-> split.raised, x_info |-> c.ret, parts |-> None, ret |-> None]
        ELSE [raised |-> "none", x_info |-> c.ret, parts |-> split.ret,
              ret |-> FitTrainApplyTest(split.ret[1], c.ret[1].names).ret]

\* start_bc, line 72; run_bc gives start_bc no random_state, so it is None
RunBcPrepare ==
    /\ pc = "Init"
    /\ \E perm \in ShufflesFor(None, Len(inp[1].fcst)) :
          LET r == prep_data(inp[1].fcst, inp[1].obs, inp[1].test_size, perm)
          IN  /\ x_info' = r.x_info
              /\ parts' = r.parts
              /\ training_data' = r.ret
              /\ IF r.raised # "none" THEN Fail(r.raised) ELSE Reach("Scaled")
    /\ UNCHANGED <<inp, results, metrics, plot, feature_importance, output, exported>>

\* start_bc, lines 74-83: the same two ifs as train_bc_model, and line 83's
\* read of `results`
RunBcTrain ==
    /\ pc = "Scaled"
    /\ LET r == Dispatch(inp[1].method, training_data[1])
       IN  IF r = None
           THEN Fail("UnboundLocalError") /\ results' = results
           ELSE Reach("Trained") /\ results' = r
    /\ UNCHANGED <<inp, x_info, parts, training_data, metrics, plot,
                   feature_importance, output, exported>>

\* start_bc, lines 83-91: the metrics, and the returned dict of model and
\* metrics
RunBcEvaluate ==
    /\ pc = "Trained"
    /\ metrics' = Some(run_eval(results[1].y_pred, training_data[1].y_test))
    /\ output' = Some([model |-> results[1].model, metrics |-> metrics'[1]])
    /\ Reach("Evaluated")
    /\ UNCHANGED <<inp, x_info, parts, training_data, results, plot,
                   feature_importance, exported>>

\* run_bc, line 60: export(output, output_dir=output_dir)
RunBcExport ==
    /\ pc = "Evaluated"
    /\ exported' = output
    /\ Reach("Exported")
    /\ UNCHANGED <<inp, x_info, parts, training_data, results, metrics, plot,
                   feature_importance, output>>

NextRunBc ==
    \/ RunBcPrepare
    \/ RunBcTrain
    \/ RunBcEvaluate
    \/ RunBcExport
InitRunBcCall == InitRunBc /\ IdleScaler /\ IdleCombine /\ IdlePredict
SpecRunBc == InitRunBcCall /\ [][NextRunBc]_vars

\* ----------------------------------------------------- a scaler session
FitNames == <<"var1", "fcst">>
RowsOver(S) == {<<Rat(a), Rat(b)>> : a \in S, b \in S}

\* the matrices handed to fit: up to MaxFitRows rows of two columns; fit, apply
\* and invert work row by row and min/max do not depend on the order of the
\* rows, so one order per multiset of rows is taken (rows ascending)
RowLeq(r, q) == r[1][1] < q[1][1] \/ (r[1][1] = q[1][1] /\ r[2][1] <= q[2][1])
FitMatrices ==
    {Matrix(Len(rows), 2, rows) :
        rows \in {w \in SeqsUpTo(RowsOver(0..MaxFitVal), MaxFitRows) :
                    \A i \in 1..(Len(w) - 1) : RowLeq(w[i], w[i + 1])}}

\* new data arrives a row at a time, holds the same raw value in both columns
\* (each column is scaled by its own min and range) and may exceed the fitted
\* range
NewData == {Matrix(1, 2, <<(<<Rat(a), Rat(a)>>)>>) : a \in 0..(MaxFitVal + 1)}

\* the names argument of apply: omitted, the fitted names, reordered, renamed
NamesArgs == {None, Some(FitNames), Some(<<"fcst", "var1">>), Some(<<"var2", "fcst">>)}
SelectedArgs == {None, Some("fcst"), Some("var1"), Some("var2")}

InitScaler ==
    /\ s_pc = "new" /\ s_M = None /\ s_scaler = None /\ s_fitted = None
    /\ s_op = "none" /\ s_via = "none" /\ s_x = None /\ s_names = None
    /\ s_sel = None /\ s_ret = None /\ s_raised = "none" /\ s_orig = None

\* init_scaler(M, FitNames): the caller keeps the returned state
Fit ==
    /\ s_pc = "new"
    /\ \E M \in FitMatrices :
          LET r == init_scaler(M, FitNames)
          IN  /\ s_pc' = IF r.raised = "none" THEN "fitted" ELSE "failed"
              /\ s_scaler' = r.scaler
              /\ s_fitted' = r.scaler
              /\ s_ret' = r.value
              /\ s_raised' = r.raised
              /\ s_M' = Some(M)
              /\ s_x' = Some(M)
              /\ s_orig' = Some(M)
    /\ s_op' = "fit"
    /\ s_via' = "none"
    /\ s_names' = None
    /\ s_sel' = None
    /\ UNCHANGED <<train_vars, combine_vars, predict_vars>>

\* apply_saved_scaler(X, scaler, names) on the session's scaler, for new data
\* or the fitted matrix itself
Apply ==
    /\ s_pc = "fitted"
    /\ \E X \in NewData \cup {s_M[1]}, names \in NamesArgs :
          LET r == apply_saved_scaler(X, s_scaler[1], names)
          IN  /\ s_scaler' = Some(r.scaler)
              /\ s_ret' = r.value
              /\ s_raised' = r.raised
              /\ s_x' = Some(X)
              /\ s_orig' = Some(X)
              /\ s_names' = names
    /\ s_op' = "apply"
    /\ s_via' = "none"
    /\ s_sel' = None
    /\ UNCHANGED <<s_pc, s_M, s_fitted>>
    /\ UNCHANGED <<train_vars, combine_vars, predict_vars>>

\* reverse_scaler(scaled, scaler, selected_name) on the matrix the last fit or
\* apply returned
Invert ==
    /\ s_pc = "fitted"
    /\ s_op \in {"fit", "apply"}
    /\ s_raised = "none"
    /\ \E selected_name \in SelectedArgs :
          LET r == reverse_scaler(s_ret[1], s_scaler[1], selected_name)
          IN  /\ s_scaler' = Some(r.scaler)
              /\ s_ret' = r.value
              /\ s_raised' = r.raised
              /\ s_sel' = selected_name
    /\ s_op' = "invert"
    /\ s_via' = s_op
    /\ s_x' = s_ret
    /\ s_names' = None
    /\ UNCHANGED <<s_pc, s_M, s_fitted, s_orig>>
    /\ UNCHANGED <<train_vars, combine_vars, predict_vars>>

NextScaler ==
    \/ Fit
    \/ Apply
    \/ Invert

InitScalerSession == IdleTrain /\ InitScaler /\ IdleCombine /\ IdlePredict
SpecScaler == InitScalerSession /\ [][NextScaler]_vars

\* ---------------------------------------------------- a call of combine
CovNames == {"var1", "var2"}

\* a dict of up to two covariates, as its items in insertion order
CombineCovariants ==
    {<< >>}
    \cup {<<Item(a, u)>> : a \in CovNames, u \in SeqsUpTo(Vals, MaxLen)}
    \cup {<<Item(ab[1], u), Item(ab[2], w)>> :
            ab \in {q \in CovNames \X CovNames : q[1] # q[2]},
            u \in SeqsUpTo(Vals, MaxLen), w \in SeqsUpTo(Vals, MaxLen)}

InitCombine ==
    /\ c_inp \in {Some([covariants |-> c, fcst |-> f]) :
                    c \in CombineCovariants, f \in SeqsUpTo(Vals, MaxLen)}
    /\ c_pc = "call"
    /\ c_out = None

CallCombine ==
    /\ c_pc = "call"
    /\ c_out' = Some(combine_covariants_and_fcst(c_inp[1].covariants, c_inp[1].fcst))
    /\ c_pc' = "done"
    /\ UNCHANGED c_inp
    /\ UNCHANGED <<train_vars, scaler_vars, predict_vars>>

NextCombine == CallCombine

InitCombineCall == IdleTrain /\ IdleScaler /\ InitCombine /\ IdlePredict
SpecCombine == InitCombineCall /\ [][NextCombine]_vars

\* --------------------------------------------------- an inference call
\* persisted scaler states: per column a min and a max with min <= max
MinMaxPairs == {q \in Vals \X Vals : q[1] <= q[2]}
PersistedScalers ==
    {ScalerState(<<Rat(a[1]), Rat(b[1])>>, <<Rat(a[2]), Rat(b[2])>>, nm) :
        a \in MinMaxPairs, b \in MinMaxPairs,
        nm \in {<<"var1", "fcst">>, <<"var2", "fcst">>}}
    \cup {ScalerState(<<Rat(a[1])>>, <<Rat(a[2])>>, <<"fcst">>) : a \in MinMaxPairs}

\* trained models are opaque handles
TrainedModels == {[kind |-> "XGBRegressor", id |-> 1], [kind |-> "LinearRegression", id |-> 2]}

PredictInputs ==
    UNION {[fcst : SeqsOfLen(0..(MaxVal + 1), n), covariants : CovariantsFor(n),
            model : TrainedModels, scaler : PersistedScalers] : n \in 0..MaxLen}

InitPredict ==
    /\ p_inp \in {Some(i) : i \in PredictInputs}
    /\ p_pc = "Init"
    /\ p_x_info = None /\ p_data = None /\ p_ret = None /\ p_raised = "none"
    /\ p_scaler = Some(p_inp[1].scaler)
    /\ p_model = Some(p_inp[1].model)
    /\ p_calls = << >>

\* prep_data_for_predicting, line 257
PredictCombine ==
    /\ p_pc = "Init"
    /\ LET r == combine_covariants_and_fcst(p_inp[1].covariants, p_inp[1].fcst)
       IN  /\ p_pc' = IF r.raised = "none" THEN "Prepared" ELSE "Failed"
           /\ p_raised' = r.raised
           /\ p_x_info' = r.ret
    /\ p_calls' = Append(p_calls, "combine_covariants_and_fcst")
    /\ UNCHANGED <<p_inp, p_data, p_ret, p_scaler, p_model>>
    /\ UNCHANGED <<train_vars, scaler_vars, combine_vars>>

\* prep_data_for_predicting, line 258: the supplied scaler is applied
PredictApply ==
    /\ p_pc = "Prepared"
    /\ LET r == apply_saved_scaler(p_x_info[1].value, p_scaler[1], Some(p_x_info[1].names))
       IN  /\ p_pc' = IF r.raised = "none" THEN "Scaled" ELSE "Failed"
           /\ p_raised' = r.raised
           /\ p_data' = r.value
           /\ p_scaler' = Some(r.scaler)
    /\ p_calls' = Append(p_calls, "apply_saved_scaler")
    /\ UNCHANGED <<p_inp, p_x_info, p_ret, p_model>>
    /\ UNCHANGED <<train_vars, scaler_vars, combine_vars>>

\* predict_bc_model, line 6 to the end of the function: `data` is bound and the
\* function ends without a return statement, so the call returns Python's None
PredictReturn ==
    /\ p_pc = "Scaled"
    /\ p_pc' = "Returned"
    /\ p_ret' = None
    /\ UNCHANGED <<p_inp, p_x_info, p_data, p_raised, p_scaler, p_model, p_calls>>
    /\ UNCHANGED <<train_vars, scaler_vars, combine_vars>>

NextPredict ==
    \/ PredictCombine
    \/ PredictApply
    \/ PredictReturn

InitPredictCall == IdleTrain /\ IdleScaler /\ IdleCombine /\ InitPredict
SpecPredict == InitPredictCall /\ [][NextPredict]_vars

\* ================================================================ claims
\* m is the least (greatest) entry of column j of x
IsColMin(x, j, m) ==
    /\ \E i \in 1..x.nrow : x.v[i][j] = m
    /\ \A i \in 1..x.nrow : RatLe(m, x.v[i][j])
IsColMax(x, j, m) ==
    /\ \E i \in 1..x.nrow : x.v[i][j] = m
    /\ \A i \in 1..x.nrow : RatLe(x.v[i][j], m)

\* other test rows a run with the same train rows could have had
OtherTestRows(ncol) ==
    {Matrix(1, ncol, <<r>>) : r \in [1..ncol -> {Rat(a) : a \in 0..(MaxVal + 1)}]}

\* C1: in every training run the scaler's min and max are the column minima and
\* maxima of the train rows alone and its names are the combined names, the
\* test rows are scaled with that fitted state, and a run with the same train
\* rows and any other test rows ends with the identical scaler state.
C1_ScalerFitOnTrainRowsOnly ==
    training_data # None =>
        LET td == training_data[1]
            sp == parts[1]
            nm == x_info[1].names
        IN  /\ td.scaler.names = nm
            /\ \A j \in 1..sp.x_train.ncol :
                  /\ IsColMin(sp.x_train, j, td.scaler.min[j])
                  /\ IsColMax(sp.x_train, j, td.scaler.max[j])
            /\ td.x_test = ScaleBy(sp.x_test, td.scaler.min,
                                   GuardedRange(td.scaler.min, td.scaler.max))
            /\ \A alt \in OtherTestRows(sp.x_train.ncol) :
                  FitTrainApplyTest([sp EXCEPT !.x_test = alt], nm).ret[1].scaler = td.scaler

\* a run whose test rows hold a value outside the train rows' range, with a
\* train column that is not constant
C1_Witness ==
    /\ training_data # None
    /\ LET td == training_data[1]
           sp == parts[1]
       IN  /\ \E i \in 1..sp.x_test.nrow, j \in 1..sp.x_test.ncol :
                 \/ RatLt(sp.x_test.v[i][j], td.scaler.min[j])
                 \/ RatLt(td.scaler.max[j], sp.x_test.v[i][j])
           /\ \E j \in 1..sp.x_train.ncol : td.scaler.min[j] # td.scaler.max[j]

ConstantCol(x, j) == \A i, k \in 1..x.nrow : x.v[i][j] = x.v[k][j]

\* C2: with S the state fit returned on a matrix M of at least one row,
\* inverting with S what fit returned as scaled, or what apply(M, S) returned,
\* gives M back; every entry of a constant column of M is scaled to 0 by fit
\* and by apply (and so inverts back to the constant).
C2_RoundTrip ==
    /\ (s_op = "invert" /\ s_sel = None /\ s_raised = "none" /\ s_orig = s_M)
          => s_ret[1] = s_M[1]
    /\ (s_op \in {"fit", "apply"} /\ s_raised = "none" /\ s_x = s_M)
          => \A j \in 1..s_M[1].ncol :
                ConstantCol(s_M[1], j)
                   => \A i \in 1..s_M[1].nrow : s_ret[1].v[i][j] = Rat(0)

\* M has a constant column of a non-zero value and a column that is not
\* constant; apply(M, S) was inverted and gave M
C2_Witness ==
    /\ s_op = "invert" /\ s_via = "apply" /\ s_sel = None /\ s_raised = "none"
    /\ s_orig = s_M
    /\ s_ret[1] = s_M[1]
    /\ \E j \in 1..2 : ConstantCol(s_M[1], j) /\ s_M[1].v[1][j] # Rat(0)
                       /\ \A i \in 1..s_M[1].nrow : s_x[1].v[i][j] = Rat(0)
    /\ \E j \in 1..2 : ~ConstantCol(s_M[1], j)

\* C3: once fit has returned, whatever apply and invert calls follow, the
\* scaler's min, max and names are the ones fit produced (the column minima
\* and maxima of the fitted matrix, the fitted names), and what apply returns
\* for a matrix is determined by that fitted state and the matrix alone.
C3_ScalerImmutable ==
    s_pc = "fitted" =>
        /\ s_scaler = s_fitted
        /\ s_scaler[1].names = FitNames
        /\ \A j \in 1..s_M[1].ncol :
              /\ IsColMin(s_M[1], j, s_scaler[1].min[j])
              /\ IsColMax(s_M[1], j, s_scaler[1].max[j])
        /\ (s_op = "apply" /\ s_raised = "none")
              => s_ret[1] = ScaleBy(s_x[1], s_fitted[1].min,
                                    GuardedRange(s_fitted[1].min, s_fitted[1].max))

\* an apply on new data outside the fitted range, then an invert, have run
C3_Witness ==
    /\ s_pc = "fitted" /\ s_op = "invert" /\ s_via = "apply"
    /\ s_orig # s_M
    /\ \E j \in 1..2 : \/ RatLt(s_orig[1].v[1][j], s_fitted[1].min[j])
                       \/ RatLt(s_fitted[1].max[j], s_orig[1].v[1][j])
    /\ s_scaler = s_fitted

AllLengthsMatch(covariants, fcst) ==
    \A k \in 1..Len(covariants) : Len(covariants[k].value) = Len(fcst)

\* C5: for covariates and a forecast of equal length, combine returns the
\* covariate names in the mapping's order followed by "fcst", and a matrix of
\* len(forecast) rows and len(covariates)+1 columns whose column j holds the
\* values of the j-th covariate, and whose last column holds the forecast.
C5_CombineLayout ==
    (c_pc = "done" /\ AllLengthsMatch(c_inp[1].covariants, c_inp[1].fcst)) =>
        LET cov == c_inp[1].covariants
            fc == c_inp[1].fcst
            k == Len(cov)
            out == c_out[1]
        IN  /\ out.raised = "none"
            /\ out.ret # None
            /\ Len(out.ret[1].names) = k + 1
            /\ \A j \in 1..k : out.ret[1].names[j] = cov[j].name
            /\ out.ret[1].names[k + 1] = "fcst"
            /\ out.ret[1].value.nrow = Len(fc)
            /\ out.ret[1].value.ncol = k + 1
            /\ \A i \in 1..Len(fc) :
                  /\ \A j \in 1..k : out.ret[1].value.v[i][j] = Rat(cov[j].value[i])
                  /\ out.ret[1].value.v[i][k + 1] = Rat(fc[i])

\* two covariates inserted as var2, var1, with columns that all differ
C5_Witness ==
    /\ c_pc = "done"
    /\ Len(c_inp[1].covariants) = 2
    /\ c_inp[1].covariants[1].name = "var2"
    /\ Len(c_inp[1].fcst) = 2
    /\ c_inp[1].covariants[1].value # c_inp[1].covariants[2].value
    /\ c_inp[1].covariants[1].value # c_inp[1].fcst
    /\ c_inp[1].covariants[2].value # c_inp[1].fcst
    /\ c_out[1].raised = "none"
    /\ c_out[1].ret[1].names = <<"var2", "var1", "fcst">>

\* C6: when some covariate's length differs from the forecast's, wherever it
\* is in the mapping, combine raises the dimension-mismatch error and returns
\* no feature matrix.
C6_LengthMismatchRejected ==
    (c_pc = "done" /\ ~AllLengthsMatch(c_inp[1].covariants, c_inp[1].fcst)) =>
        (c_out[1].raised = "DimensionMismatch" /\ c_out[1].ret = None)

\* the first covariate has the forecast's length, the second has not
C6_Witness ==
    /\ c_pc = "done"
    /\ Len(c_inp[1].covariants) = 2
    /\ Len(c_inp[1].covariants[1].value) = Len(c_inp[1].fcst)
    /\ Len(c_inp[1].covariants[2].value) # Len(c_inp[1].fcst)
    /\ c_out[1].raised = "DimensionMismatch"
    /\ c_out[1].ret = None

KnownMethods == {"xgboost", "linear_regression"}

\* C7: a training run with an unknown method identifier ends with the
\* UnknownMethod error, and has trained no model, computed no metrics and
\* returned or exported nothing.
C7_UnknownMethodFails ==
    (pc # "Idle" /\ inp[1].method \notin KnownMethods) =>
        /\ results = None /\ metrics = None /\ feature_importance = None
        /\ output = None /\ exported = None
        /\ (pc = "Failed" /\ training_data # None) => raised = "UnknownMethod"

StageOrder == <<"Init", "Prepared", "Split", "Scaled", "Trained", "Evaluated", "Exported">>
IsPrefix(a, b) == Len(a) <= Len(b) /\ \A i \in 1..Len(a) : a[i] = b[i]
Visited(stage) == \E i \in 1..Len(visited) : visited[i] = stage

\* what each stage of a training run has, and from what it was made
C8_StageInv ==
    /\ IsPrefix(visited, StageOrder)
    /\ pc # "Failed" => (raised = "none" /\ pc = visited[Len(visited)])
    /\ pc = "Failed" => raised # "none"
    /\ Visited("Prepared") <=> x_info # None
    /\ Visited("Split") <=> parts # None
    /\ Visited("Scaled") <=> training_data # None
    /\ Visited("Trained") <=> results # None
    /\ Visited("Evaluated") <=> (metrics # None /\ feature_importance # None /\ output # None)
    /\ Visited("Exported") <=> exported # None
    /\ parts # None =>
          /\ parts[1].x_train = TakeRows(x_info[1].value, parts[1].ind_train)
          /\ parts[1].x_test = TakeRows(x_info[1].value, parts[1].ind_test)
    /\ training_data # None =>
          LET td == training_data[1]
              r == GuardedRange(td.scaler.min, td.scaler.max)
          IN  /\ \A j \in 1..parts[1].x_train.ncol :
                    /\ IsColMin(parts[1].x_train, j, td.scaler.min[j])
                    /\ IsColMax(parts[1].x_train, j, td.scaler.max[j])
              /\ td.x_train = ScaleBy(parts[1].x_train, td.scaler.min, r)
              /\ td.x_test = ScaleBy(parts[1].x_test, td.scaler.min, r)
              /\ td.y_train = parts[1].y_train
    /\ results # None =>
          /\ results[1].model.x = training_data[1].x_train
          /\ results[1].model.y = training_data[1].y_train
          /\ results[1].y_pred = Predict(results[1].model, training_data[1].x_test)
    /\ metrics # None =>
          /\ metrics[1].of = results[1].y_pred
          /\ metrics[1].against = training_data[1].y_test
    /\ exported # None => (exported = output /\ exported[1].metrics = metrics[1])

\* a step of a training run starts in a run that has not failed, and either
\* enters the next stage or fails where it is
C8_Step ==
    /\ pc # "Failed"
    /\ \/ pc' = "Failed" /\ visited' = visited
       \/ visited' = Append(visited, pc') /\ IsPrefix(visited', StageOrder)

\* C8: a training run visits its stages only in the order Init, Prepared,
\* Split, Scaled, Trained, Evaluated, Exported: the split takes rows of the
\* combined features, the scaler is fitted on the split's train rows, the
\* model is trained on the scaled train rows and predicts the scaled test
\* rows, the metrics are of that prediction, the exported bundle is the
\* evaluated one; a failed run takes no further step.
C8_StageOrder == []C8_StageInv /\ [][C8_Step]_vars

\* a run that went through every stage
C8_Witness ==
    /\ pc = "Exported"
    /\ visited = StageOrder
    /\ exported # None
    /\ parts[1].x_train.nrow >= 2
    /\ training_data[1].x_train # parts[1].x_train

\* C9: an inference call with matching names ends having called predict of
\* the supplied model on the scaled features, and returns that prediction.
C9_InferenceReturnsPrediction ==
    p_pc = "Returned" =>
        /\ p_data # None
        /\ p_ret = Some(Predict(p_inp[1].model, p_data[1]))

\* C10: during an inference call the scaler and the model are the supplied
\* ones, unchanged; the only functions called are the combine and the apply
\* (no fit, no training, no export); the scaled features are the combined
\* features scaled with the supplied state.
C10_InferenceLeavesArtifacts ==
    p_pc # "Idle" =>
        /\ p_scaler = Some(p_inp[1].scaler)
        /\ p_model = Some(p_inp[1].model)
        /\ \A k \in 1..Len(p_calls) :
              p_calls[k] \in {"combine_covariants_and_fcst", "apply_saved_scaler"}
        /\ p_data # None =>
              p_data[1] = ScaleBy(p_x_info[1].value, p_inp[1].scaler.min,
                                  GuardedRange(p_inp[1].scaler.min, p_inp[1].scaler.max))

\* an inference call over at least one row has returned, with a supplied
\* scaler that has a column of non-zero range
C10_Witness ==
    /\ p_pc = "Returned"
    /\ p_data[1].nrow >= 1
    /\ p_calls = <<"combine_covariants_and_fcst", "apply_saved_scaler">>
    /\ \E j \in 1..Len(p_inp[1].scaler.min) :
          p_inp[1].scaler.min[j] # p_inp[1].scaler.max[j]

\* how many times row r of the input occurs at the indices idx
Occurrences(idx, r) == Cardinality({i \in 1..Len(idx) : idx[i] = r})

\* C11: after a split of n rows every input row is in exactly one of the train
\* and the test rows, exactly once (so the subsets are disjoint and their
\* sizes sum to n), and each row of either subset is the input's feature row
\* together with the target value of that same input row.
C11_SplitIsPartition ==
    parts # None =>
        LET sp == parts[1]
            x == x_info[1].value
            y == inp[1].obs
        IN  /\ sp.x_train.nrow + sp.x_test.nrow = x.nrow
            /\ Len(sp.y_train) = sp.x_train.nrow
            /\ Len(sp.y_test) = sp.x_test.nrow
            /\ Len(sp.ind_train) = sp.x_train.nrow
            /\ Len(sp.ind_test) = sp.x_test.nrow
            /\ \A r \in 1..x.nrow :
                  Occurrences(sp.ind_train, r) + Occurrences(sp.ind_test, r) = 1
            /\ \A i \in 1..sp.x_train.nrow :
                  /\ sp.ind_train[i] \in 1..x.nrow
                  /\ sp.x_train.v[i] = x.v[sp.ind_train[i]]
                  /\ sp.y_train[i] = y[sp.ind_train[i]]
            /\ \A i \in 1..sp.x_test.nrow :
                  /\ sp.ind_test[i] \in 1..x.nrow
                  /\ sp.x_test.v[i] = x.v[sp.ind_test[i]]
                  /\ sp.y_test[i] = y[sp.ind_test[i]]

\* a split of three rows whose shuffle moved the rows: the test row is not
\* the first input row and the train rows are out of their input order
C11_Witness ==
    /\ parts # None
    /\ x_info[1].value.nrow = 3
    /\ parts[1].x_test.nrow = 1
    /\ parts[1].x_train.nrow = 2
    /\ parts[1].ind_test[1] # 1
    /\ parts[1].ind_train[1] > parts[1].ind_train[2]

\* C12: the partition of a training run is the one every training run with the
\* same inputs and the same seed gets: whatever permutation the shuffle may
\* draw for the random_state the run passes on, the split is the same.
C12_SplitReproducible ==
    parts # None =>
        \A perm \in ShufflesFor(TrainRandomState, x_info[1].value.nrow) :
            train_test_split(x_info[1].value, inp[1].obs, inp[1].test_size, perm).ret = parts

\* test_size is a fraction strictly between 0 and 1
InOpenUnitInterval(test_size) ==
    ~test_size.int /\ 0 < test_size.num /\ test_size.num < test_size.den

\* C13: a training run whose test_size is not a fraction strictly between 0
\* and 1 (0, 1, or an integer value) never gets a split: it fails at the split
\* with nothing split, no scaler fitted and no model trained.
C13_OnlyFractionsAccepted ==
    (pc # "Idle" /\ ~InOpenUnitInterval(inp[1].test_size)) =>
        /\ parts = None /\ training_data = None /\ results = None
        /\ pc \in {"Init", "Prepared", "Failed"}

BundleKeys == {"model", "scaler", "metrics", "feature_importance"}

\* C14: the bundle a completed training run hands to export holds exactly
\* model, scaler, metrics and feature_importance; its scaler is the state
\* fitted on the run's train rows, with which its test rows were scaled; and
\* it is the bundle the run returned.
C14_BundleComplete ==
    exported # None =>
        /\ exported = output
        /\ DOMAIN exported[1] = BundleKeys
        /\ exported[1].model = results[1].model
        /\ exported[1].metrics = metrics[1]
        /\ exported[1].feature_importance = feature_importance[1]
        /\ exported[1].scaler = training_data[1].scaler
        /\ \A j \in 1..parts[1].x_train.ncol :
              /\ IsColMin(parts[1].x_train, j, exported[1].scaler.min[j])
              /\ IsColMax(parts[1].x_train, j, exported[1].scaler.max[j])
        /\ training_data[1].x_test =
              ScaleBy(parts[1].x_test, exported[1].scaler.min,
                      GuardedRange(exported[1].scaler.min, exported[1].scaler.max))

\* a number, as opposed to inf or nan
IsFinite(r) == r[2] # 0

\* C15: whatever matrix fit or apply scaled, every entry of the result is a
\* number (no division by zero); in a column whose fitted max equals its min
\* the range is taken as 1 and the min is subtracted, so the scaled entry is
\* the entry minus the min, and fit scales every entry of such a column to 0.
C15_ZeroGuardedRange ==
    (s_op \in {"fit", "apply"} /\ s_raised = "none") =>
        \A i \in 1..s_ret[1].nrow, j \in 1..s_ret[1].ncol :
            /\ IsFinite(s_ret[1].v[i][j])
            /\ s_scaler[1].min[j] = s_scaler[1].max[j] =>
                  /\ s_ret[1].v[i][j] = RatSub(s_x[1].v[i][j], s_scaler[1].min[j])
                  /\ s_op = "fit" => s_ret[1].v[i][j] = Rat(0)

\* fit saw a column constant at a non-zero value (and one that is not
\* constant); apply then scaled new data that is off the constant
C15_Witness ==
    /\ s_op = "apply" /\ s_raised = "none"
    /\ s_M[1].nrow >= 2
    /\ \E j \in 1..2 :
          /\ ConstantCol(s_M[1], j)
          /\ s_scaler[1].min[j] = s_scaler[1].max[j]
          /\ s_scaler[1].min[j] # Rat(0)
          /\ s_x[1].v[1][j] # s_scaler[1].min[j]
          /\ s_ret[1].v[1][j] = RatSub(s_x[1].v[1][j], s_scaler[1].min[j])
    /\ \E j \in 1..2 : ~ConstantCol(s_M[1], j)

InUnitInterval(r) == RatLe(Rat(0), r) /\ RatLe(r, Rat(1))
Within(x, lo, hi) == RatLe(lo, x) /\ RatLe(x, hi)

\* an apply with the fitted names has just been called
MatchingApply == s_op = "apply" /\ s_names = Some(s_fitted[1].names)

\* C16, as stated: an apply with matching names succeeds; an entry within its
\* column's fitted [min, max] is scaled into [0, 1], and an entry outside it
\* is scaled to a value outside [0, 1].
C16_OutsideScalesOutside ==
    MatchingApply =>
        /\ s_raised = "none"
        /\ \A i \in 1..s_x[1].nrow, j \in 1..s_x[1].ncol :
              IF Within(s_x[1].v[i][j], s_fitted[1].min[j], s_fitted[1].max[j])
              THEN InUnitInterval(s_ret[1].v[i][j])
              ELSE ~InUnitInterval(s_ret[1].v[i][j])

\* C16, amended: an apply with matching names succeeds and scales every entry
\* by (entry - min) / range without clipping, range being max - min, or 1 where
\* max = min; an entry within its column's fitted [min, max] is scaled into
\* [0, 1]; an entry outside it is scaled to a value outside [0, 1] if the
\* column's max exceeds its min, and to entry - min if max = min.
C16_ApplyRange ==
    MatchingApply =>
        /\ s_raised = "none"
        /\ s_ret[1].nrow = s_x[1].nrow /\ s_ret[1].ncol = s_x[1].ncol
        /\ \A i \in 1..s_x[1].nrow, j \in 1..s_x[1].ncol :
              LET x == s_x[1].v[i][j]
                  lo == s_fitted[1].min[j]
                  hi == s_fitted[1].max[j]
                  y == s_ret[1].v[i][j]
              IN  /\ y = RatDiv(RatSub(x, lo), IF hi = lo THEN Rat(1) ELSE RatSub(hi, lo))
                  /\ Within(x, lo, hi) => InUnitInterval(y)
                  /\ (~Within(x, lo, hi) /\ hi # lo) => ~InUnitInterval(y)
                  /\ (~Within(x, lo, hi) /\ hi = lo) => y = RatSub(x, lo)

\* an apply with matching names on new data that lies within the fitted range
\* of one column and above the fitted range of the other, neither constant
C16_Witness ==
    /\ MatchingApply /\ s_raised = "none"
    /\ \E j, k \in 1..2 :
          /\ s_fitted[1].min[j] # s_fitted[1].max[j]
          /\ s_fitted[1].min[k] # s_fitted[1].max[k]
          /\ Within(s_x[1].v[1][j], s_fitted[1].min[j], s_fitted[1].max[j])
          /\ InUnitInterval(s_ret[1].v[1][j])
          /\ RatLt(s_fitted[1].max[k], s_x[1].v[1][k])
          /\ RatLt(Rat(1), s_ret[1].v[1][k])

\* column c of x as a sequence
ColumnOf(x, c) == [i \in 1..x.nrow |-> x.v[i][c]]

\* C17: an invert of a matrix scaled with the same state (by fit or by apply)
\* returns, with no selected name, the full unscaled matrix, which is the
\* matrix that was scaled; with a selected name of the scaler's names, only
\* the column of the unscaled matrix at that name's position in the names, so
\* for "fcst" the original forecast values of the rows; a selected name that
\* is not among the names is an error.
C17_InvertSelectsByName ==
    s_op = "invert" =>
        LET names == s_scaler[1].names
            r == GuardedRange(s_scaler[1].min, s_scaler[1].max)
        IN  /\ s_sel = None =>
                  /\ s_raised = "none"
                  /\ s_ret[1] = s_orig[1]
                  /\ \A i \in 1..s_x[1].nrow, j \in 1..s_x[1].ncol :
                        s_ret[1].v[i][j] =
                            RatAdd(RatMul(s_x[1].v[i][j], r[j]), s_scaler[1].min[j])
            /\ \A c \in 1..Len(names) :
                  s_sel = Some(names[c]) =>
                      /\ s_raised = "none"
                      /\ Len(s_ret[1]) = s_x[1].nrow
                      /\ s_ret[1] = ColumnOf(s_orig[1], c)
                      /\ \A i \in 1..s_x[1].nrow :
                            s_ret[1][i] = RatAdd(RatMul(s_x[1].v[i][c], r[c]),
                                                 s_scaler[1].min[c])
            /\ (s_sel # None /\ \A c \in 1..Len(names) : names[c] # s_sel[1]) =>
                  (s_raised = "ValueError" /\ s_ret = None)

\* the "fcst" column of a scaled matrix of two rows was inverted: the forecast
\* column differs from the other column and was changed by the scaling
C17_Witness ==
    /\ s_op = "invert" /\ s_sel = Some("fcst") /\ s_raised = "none"
    /\ s_orig[1].nrow = 2
    /\ s_scaler[1].names[2] = "fcst"
    /\ s_ret[1] = ColumnOf(s_orig[1], 2)
    /\ ColumnOf(s_orig[1], 1) # ColumnOf(s_orig[1], 2)
    /\ ColumnOf(s_x[1], 2) # ColumnOf(s_orig[1], 2)

====
